---- MODULE Spec2Model ----
(***************************************************************************)
(* Model of RiverSwimEnv (src/riverswim/riverswim.py).                     *)
(*                                                                         *)
(* Numbers.  Probabilities are binary fixed-point integers in units of     *)
(* 2^-28 (ONE is 1.0).  Every configuration of the model has p_left and    *)
(* p_right that are multiples of 2^-28, so the float64 arithmetic of the   *)
(* constructor (1 - p_left - p_right, p_stay + p_left, 1 - p_right) is     *)
(* exact on them and is plain integer arithmetic here.  The kernel is a    *)
(* float32 array: every store into it, and every partial sum of its        *)
(* float32 row sums, is rounded to 24 significant bits by F32, as IEEE     *)
(* round-to-nearest-even does.  The defaults 0.1 and 0.3 are the nearest   *)
(* multiples of 2^-28; the float32 kernel entries they give (0.1, 0.3,     *)
(* 0.6, 0.7 as float32) are those the doubles 0.1 and 0.3 give.            *)
(*                                                                         *)
(* Two instances.  TwinSpec has a second environment of the same           *)
(* configuration in `other`; Switch is the caller turning to it.  There the *)
(* value a seeded generator returns at a position is fixed the first time   *)
(* it is drawn (stream), as it is for a pseudo-random generator.            *)
(*                                                                         *)
(* Random source.  np_random is [src, id, pos]: which seed made the        *)
(* generator (a reset seed, or the id-th draw of OS entropy) and how many  *)
(* values have been drawn from it.  The value a draw returns is an input   *)
(* of the model: a quantile u of [0, 1) chosen with \E.                    *)
(***************************************************************************)
EXTENDS Integers, Sequences, FiniteSets, TLC

VARIABLES
    n_states,             \* self.n_states
    p_left,               \* self.p_left
    p_right,              \* self.p_right
    p_stay,               \* self.p_stay
    max_reward,           \* self.max_reward
    intermediate_reward,  \* self.intermediate_reward
    commom_reward,        \* self.commom_reward
    transition,           \* self.transition (the matrix _get_transition built)
    current_state,        \* self.current_state
    np_random,            \* self.np_random
    entropy,              \* generators seeded from OS entropy so far
    status,               \* "ready", or "AssertionError" when construction failed
    call,                 \* the last call made on the environment
    ret,                  \* what that call returned or raised
    other,                \* a second instance, while the caller uses this one
    stream,               \* the values seeded generators have returned so far
    run,                  \* this instance's calls since its last seeded reset
    left                  \* where a closing run of step(0) calls started

vars == <<n_states, p_left, p_right, p_stay, max_reward, intermediate_reward,
          commom_reward, transition, current_state, np_random, entropy,
          status, call, ret, other, stream, run, left>>

config == <<n_states, p_left, p_right, p_stay, max_reward, intermediate_reward,
            commom_reward, transition>>

----------------------------------------------------------------------------
(* Bounds of the model. *)

MaxStates == 3      \* non-default configurations have n_states in 1..MaxStates
MaxDraws == 6       \* values drawn from one generator
MaxEntropy == 2     \* generators seeded from OS entropy
MaxSeed == 1        \* reset seeds are 0..MaxSeed
NumQuantiles == 4   \* a draw returns u = j/NumQuantiles, or the largest u < 1

(* Defaults of __init__. *)
DefaultStates == 6
DefaultMaxReward == 10000
DefaultIntermediateReward == 5
DefaultCommomReward == 0
DefaultPRight == 80530637
DefaultPLeft == 26843546

ONE == 2^28
None == 0 - 1
NoError == "ok"

----------------------------------------------------------------------------
(* float32 *)

RECURSIVE Quantum(_)
Quantum(m) == IF m < 2^24 THEN 1 ELSE 2 * Quantum(m \div 2)

RoundMagnitude(m) ==
    LET q    == Quantum(m)
        r    == m % q
        down == m - r
    IN  IF 2 * r < q THEN down
        ELSE IF 2 * r > q THEN down + q
        ELSE IF (down \div q) % 2 = 0 THEN down ELSE down + q

F32(x) == IF x < 0 THEN 0 - RoundMagnitude(0 - x) ELSE RoundMagnitude(x)

----------------------------------------------------------------------------
(* _get_transition *)

States(n) == 0 .. (n - 1)

(* np.zeros(shape=(n_states, n_actions, n_states), dtype=np.float32) *)
Zeros(n) == [s \in States(n) |-> [a \in 0 .. 1 |-> [t \in States(n) |-> 0]]]

(* A Python index: a negative one counts from the end of the axis. *)
PyIndex(k, n) == IF k < 0 THEN k + n ELSE k

(* transition_matrix[s, a, t] = v: the value is stored as a float32. *)
Store(T, n, s, a, t, v) == [T EXCEPT ![s][a][PyIndex(t, n)] = F32(v)]

(* Mutant: state 0 is not special-cased, so its writes at i - 1 wrap around
   to the last state. *)
LeftBranchNoBoundary(T, n, i, pl, ps) ==
    Store(Store(Store(T, n, i, 0, i - 1, ONE), n, i, 1, i - 1, pl), n, i, 1, i, ps)

(* Mutant: at state 0 the left mass is dropped instead of folded into
   staying. *)
LeftBranchNoFold(T, n, i, pl, ps) ==
    IF i > 0
    THEN Store(Store(Store(T, n, i, 0, i - 1, ONE), n, i, 1, i - 1, pl), n, i, 1, i, ps)
    ELSE Store(Store(T, n, i, 0, i, ONE), n, i, 1, i, ps)

(* Mutant: action 0 writes its probability 1 at the state itself. *)
LeftBranchStays(T, n, i, pl, ps) ==
    IF i > 0
    THEN Store(Store(Store(T, n, i, 0, i, ONE), n, i, 1, i - 1, pl), n, i, 1, i, ps)
    ELSE Store(Store(T, n, i, 0, i, ONE), n, i, 1, i, ps + pl)

(* The first if/else of the loop body, for state i. *)
LeftBranch(T, n, i, pl, ps) ==
    IF i > 0
    THEN Store(Store(Store(T, n, i, 0, i - 1, ONE), n, i, 1, i - 1, pl), n, i, 1, i, ps)
    ELSE Store(Store(T, n, i, 0, i, ONE), n, i, 1, i, ps + pl)

(* Mutant: the last state folds the right mass into staying on top of
   p_stay, as state 0 folds the left mass. *)
RightBranchSymmetricFold(T, n, i, pr) ==
    IF i < n - 1
    THEN Store(T, n, i, 1, i + 1, pr)
    ELSE Store(T, n, i, 1, i, (ONE - T[i][1][PyIndex(i - 1, n)]) )

(* Mutant: the last-state branch is also taken by the state before the
   last (i < n_states - 2). *)
RightBranchOffByOne(T, n, i, pr) ==
    IF i < n - 2
    THEN Store(T, n, i, 1, i + 1, pr)
    ELSE Store(Store(T, n, i, 1, i, pr), n, i, 1, i - 1, ONE - pr)

(* The second if/else of the loop body, for state i. *)
RightBranch(T, n, i, pr) ==
    IF i < n - 1
    THEN Store(T, n, i, 1, i + 1, pr)
    ELSE Store(Store(T, n, i, 1, i, pr), n, i, 1, i - 1, ONE - pr)

(* for i in range(self.n_states), from state i on. *)
RECURSIVE FillFrom(_, _, _, _, _, _)
FillFrom(T, n, i, pl, pr, ps) ==
    IF i >= n THEN T
    ELSE FillFrom(RightBranch(LeftBranch(T, n, i, pl, ps), n, i, pr), n, i + 1, pl, pr, ps)

TransitionMatrix(n, pl, pr, ps) == FillFrom(Zeros(n), n, 0, pl, pr, ps)

(* row[0] + ... + row[k-1] accumulated in float32, in index order. *)
RECURSIVE SumF32(_, _)
SumF32(row, k) == IF k = 0 THEN 0 ELSE F32(SumF32(row, k - 1) + row[k - 1])

(* Mutant: the assertions are not evaluated. *)
RowSumsUnchecked(T, n) == TRUE

(* The two assertions: every row of either action sums to exactly 1.0. *)
RowSumsAreOne(T, n) ==
    \A s \in States(n) : \A a \in 0 .. 1 : SumF32(T[s][a], n) = ONE

----------------------------------------------------------------------------
(* np_random *)

(* Mutant: the seed is not passed on, every generator is made from fresh
   OS entropy. *)
SeededGeneratorIgnoringSeed(seed, fresh) ==
    [src |-> "entropy", id |-> fresh, pos |-> 0]

(* seeding.np_random(seed): a generator at the start of its stream, made
   from the seed, or from fresh OS entropy when the seed is None. *)
SeededGenerator(seed, fresh) ==
    IF seed = None
    THEN [src |-> "entropy", id |-> fresh, pos |-> 0]
    ELSE [src |-> "seed", id |-> seed, pos |-> 0]

(* The generator after one more value was drawn from it. *)
Advance(g) == [g EXCEPT !.pos = @ + 1]

(* What a draw may return: j < NumQuantiles stands for u = j/NumQuantiles,
   j = NumQuantiles for the largest double below 1. *)
Quantiles == 0 .. NumQuantiles

(* p.cumsum()[k] in float64: exact on float32 entries. *)
RECURSIVE Cdf(_, _)
Cdf(p, k) == IF k < 0 THEN 0 ELSE Cdf(p, k - 1) + p[k]

(* Generator.choice rejects p with a negative entry or a sum off 1.0 by more
   than sqrt(eps) of float32 (2^-11.5). *)
ChoiceRejects(p, n) ==
    LET total == Cdf(p, n - 1)
        atol  == ONE \div 2896
    IN  \/ \E k \in States(n) : p[k] < 0
        \/ total - ONE > atol
        \/ ONE - total > atol

(* Mutant: the sampled index is taken as 1-based. *)
ChoiceOneBased(p, n, j) ==
    LET total == Cdf(p, n - 1)
    IN  1 + Cardinality({k \in States(n) :
            IF j < NumQuantiles
            THEN Cdf(p, k) * NumQuantiles <= j * total
            ELSE Cdf(p, k) < total})

(* Generator.choice(n, p=p) on the draw j: cdf = cumsum(p) / cumsum(p)[-1],
   then cdf.searchsorted(u, side="right"), the number of entries <= u. *)
Choice(p, n, j) ==
    LET total == Cdf(p, n - 1)
    IN  Cardinality({k \in States(n) :
            IF j < NumQuantiles
            THEN Cdf(p, k) * NumQuantiles <= j * total
            ELSE Cdf(p, k) < total})

----------------------------------------------------------------------------
(* __init__ *)

Rewards ==
    { [max |-> DefaultMaxReward, intermediate |-> DefaultIntermediateReward,
       commom |-> DefaultCommomReward],
      [max |-> 3, intermediate |-> 2, commom |-> 1] }

(* <<p_left, p_right>>: the defaults; the corners; exact binary fractions;
   a pair whose float32 middle row does not add up; and pairs outside the
   documented range (negative p_left, p_right > 1, p_left + p_right > 1). *)
Probabilities ==
    { <<DefaultPLeft, DefaultPRight>>,
      <<0, 0>>, <<0, ONE>>,
      <<ONE \div 4, ONE \div 2>>, <<ONE \div 2, ONE \div 2>>,
      <<ONE \div 2, ONE \div 12>>,
      <<0 - ONE \div 4, ONE \div 2>>,
      <<ONE \div 2, ONE + ONE \div 2>>,
      <<3 * (ONE \div 4), ONE \div 2>> }

Default ==
    [n |-> DefaultStates, pl |-> DefaultPLeft, pr |-> DefaultPRight,
     rw |-> [max |-> DefaultMaxReward, intermediate |-> DefaultIntermediateReward,
             commom |-> DefaultCommomReward]]

Configurations ==
    {Default} \cup
    { [n |-> n, pl |-> p[1], pr |-> p[2], rw |-> rw] :
        n \in 1 .. MaxStates, p \in Probabilities, rw \in Rewards }

(* Mutant: current_state is left unset until the first reset. *)
StartStatesUnset == {None}

(* self.np_random.choice([0, 1]) *)
StartStates == {0, 1}

(* The state __init__ leaves: current_state drawn from the lazily created,
   entropy-seeded generator, the fields set, the kernel built and checked. *)
Construct(c, first, made) ==
        /\ n_states = c.n
        /\ current_state = first
        /\ entropy = made + 1
        /\ np_random = Advance(SeededGenerator(None, made + 1))
        /\ p_right = c.pr
        /\ p_left = c.pl
        /\ p_stay = ONE - c.pl - c.pr
        /\ max_reward = c.rw.max
        /\ intermediate_reward = c.rw.intermediate
        /\ commom_reward = c.rw.commom
        /\ transition = TransitionMatrix(c.n, c.pl, c.pr, ONE - c.pl - c.pr)
        /\ status = IF RowSumsAreOne(TransitionMatrix(c.n, c.pl, c.pr, ONE - c.pl - c.pr), c.n)
                    THEN "ready" ELSE "AssertionError"
        /\ call = [op |-> "__init__", arg |-> None, state_before |-> None]
        /\ ret = [error |-> IF RowSumsAreOne(TransitionMatrix(c.n, c.pl, c.pr, ONE - c.pl - c.pr), c.n)
                            THEN NoError ELSE "AssertionError",
                  value |-> <<>>]

(* No seeded run is being recorded. *)
NoRun == [seed |-> None, actions |-> <<>>, results |-> <<>>]

(* No closing run of step(0) calls has started. *)
NotLeft == [from |-> None, at |-> None]

(* One environment, made by the first use of OS entropy. *)
Init ==
    /\ \E c \in Configurations, first \in StartStates : Construct(c, first, 0)
    /\ other = <<>>
    /\ stream = <<>>
    /\ run = NoRun
    /\ left = NotLeft

----------------------------------------------------------------------------
(* reset *)

Seeds == 0 .. MaxSeed

(* Mutant: reset picks the start state as the constructor does. *)
ResetRandomStart(seed) ==
    /\ status = "ready"
    /\ seed = None => entropy < MaxEntropy
    /\ np_random' = Advance(SeededGenerator(seed, entropy + 1))
    /\ entropy' = IF seed = None THEN entropy + 1 ELSE entropy
    /\ current_state' \in {0, 1}
    /\ call' = [op |-> "reset", arg |-> seed, state_before |-> current_state]
    /\ ret' = [error |-> NoError, value |-> <<current_state', {}>>]
    /\ UNCHANGED <<config, status>>

Reset(seed) ==
    /\ status = "ready"
    /\ seed = None => entropy < MaxEntropy
    /\ np_random' = SeededGenerator(seed, entropy + 1)
    /\ entropy' = IF seed = None THEN entropy + 1 ELSE entropy
    /\ current_state' = 0
    /\ call' = [op |-> "reset", arg |-> seed, state_before |-> current_state]
    /\ ret' = [error |-> NoError, value |-> <<0, {}>>]
    /\ UNCHANGED <<config, status>>

----------------------------------------------------------------------------
(* step *)

Actions == {0 - 1, 0, 1, 2}

(* Mutant: the reward looks at the state reached only, not at whether the
   step stayed in place. *)
RewardIgnoringStay(s, a, t) ==
    IF t = 0 /\ a = 0 THEN intermediate_reward
    ELSE IF t = n_states - 1 /\ a = 1 THEN max_reward
    ELSE commom_reward

(* Mutant: the reward of staying at an end state does not look at the
   action. *)
RewardIgnoringAction(s, a, t) ==
    IF s = t
    THEN IF t = 0 THEN intermediate_reward
         ELSE IF t = n_states - 1 THEN max_reward
         ELSE commom_reward
    ELSE commom_reward

(* The reward of a step from state s with action a that sampled state t. *)
Reward(s, a, t) ==
    IF s = t
    THEN IF t = 0 /\ a = 0 THEN intermediate_reward
         ELSE IF t = n_states - 1 /\ a = 1 THEN max_reward
         ELSE commom_reward
    ELSE commom_reward

Raise(op, arg, error) ==
    /\ call' = [op |-> op, arg |-> arg, state_before |-> current_state]
    /\ ret' = [error |-> error, value |-> <<>>]
    /\ UNCHANGED <<config, status, current_state, np_random, entropy>>

(* Mutant: the row, a view of the kernel, is overwritten in place with the
   outcome. *)
SampleOverwritingRow(action, j) ==
    LET next_state == Choice(transition[current_state][action], n_states, j)
    IN  /\ np_random.pos < MaxDraws
        /\ np_random' = Advance(np_random)
        /\ current_state' = next_state
        /\ call' = [op |-> "step", arg |-> action, state_before |-> current_state]
        /\ ret' = [error |-> NoError,
                   value |-> <<next_state, Reward(current_state, action, next_state),
                               FALSE, FALSE, {}>>]
        /\ transition' = [transition EXCEPT ![current_state][action] =
                              [t \in States(n_states) |-> IF t = next_state THEN ONE ELSE 0]]
        /\ UNCHANGED <<n_states, p_left, p_right, p_stay, max_reward,
                       intermediate_reward, commom_reward, status, entropy>>

(* Mutant: reaching the last state ends the episode. *)
SampleEpisodic(action, j) ==
    LET next_state == Choice(transition[current_state][action], n_states, j)
    IN  /\ np_random.pos < MaxDraws
        /\ np_random' = Advance(np_random)
        /\ current_state' = next_state
        /\ call' = [op |-> "step", arg |-> action, state_before |-> current_state]
        /\ ret' = [error |-> NoError,
                   value |-> <<next_state, Reward(current_state, action, next_state),
                               next_state = n_states - 1, FALSE, {}>>]
        /\ UNCHANGED <<config, status, entropy>>

(* Mutant: the reward is computed after current_state has been advanced. *)
SampleRewardAfterUpdate(action, j) ==
    LET next_state == Choice(transition[current_state][action], n_states, j)
    IN  /\ np_random.pos < MaxDraws
        /\ np_random' = Advance(np_random)
        /\ current_state' = next_state
        /\ call' = [op |-> "step", arg |-> action, state_before |-> current_state]
        /\ ret' = [error |-> NoError,
                   value |-> <<next_state, Reward(next_state, action, next_state),
                               FALSE, FALSE, {}>>]
        /\ UNCHANGED <<config, status, entropy>>

Sample(action, j) ==
    LET next_state == Choice(transition[current_state][action], n_states, j)
    IN  /\ np_random.pos < MaxDraws
        /\ np_random' = Advance(np_random)
        /\ current_state' = next_state
        /\ call' = [op |-> "step", arg |-> action, state_before |-> current_state]
        /\ ret' = [error |-> NoError,
                   value |-> <<next_state, Reward(current_state, action, next_state),
                               FALSE, FALSE, {}>>]
        /\ UNCHANGED <<config, status, entropy>>

(* Mutant: an action outside {0, 1} is clamped into it. *)
StepClamping(action) ==
    LET clamped == IF action < 0 THEN 0 ELSE IF action > 1 THEN 1 ELSE action
    IN  /\ status = "ready"
        /\ IF current_state \notin States(n_states)
           THEN Raise("step", action, "IndexError")
           ELSE IF ChoiceRejects(transition[current_state][clamped], n_states)
           THEN Raise("step", action, "ValueError: probabilities")
           ELSE \E j \in Quantiles :
                    LET next_state == Choice(transition[current_state][clamped], n_states, j)
                    IN  /\ np_random.pos < MaxDraws
                        /\ np_random' = Advance(np_random)
                        /\ current_state' = next_state
                        /\ call' = [op |-> "step", arg |-> action,
                                    state_before |-> current_state]
                        /\ ret' = [error |-> NoError,
                                   value |-> <<next_state,
                                               Reward(current_state, clamped, next_state),
                                               FALSE, FALSE, {}>>]
                        /\ UNCHANGED <<config, status, entropy>>

Step(action) ==
    /\ status = "ready"
    /\ IF action \notin {0, 1}
       THEN Raise("step", action, "ValueError: Invalid action")
       ELSE IF current_state \notin States(n_states)
       THEN Raise("step", action, "IndexError")
       ELSE IF ChoiceRejects(transition[current_state][action], n_states)
       THEN Raise("step", action, "ValueError: probabilities")
       ELSE \E j \in Quantiles : Sample(action, j)

----------------------------------------------------------------------------

(* The calls on a single environment. *)
ResetAlone(seed) == Reset(seed) /\ UNCHANGED <<other, stream, run, left>>

StepAlone(action) == Step(action) /\ UNCHANGED <<other, stream, run, left>>

Next ==
    \/ \E seed \in Seeds \cup {None} : ResetAlone(seed)
    \/ \E action \in Actions : StepAlone(action)

Spec == Init /\ [][Next]_vars

----------------------------------------------------------------------------
(* Two environments of one configuration *)

TwinDraws == 2      \* values drawn from one generator in TwinSpec

TwinSeeds == {0}

TwinActions == {0, 1, 2}

(* What a draw may return in TwinSpec: u = 0, u = 1/NumQuantiles and the
   largest u < 1, which with p_left = 1/8 and p_right = 1/2 take a middle
   state left, nowhere and right. *)
TwinQuantiles == {0, 1, NumQuantiles}

TwinConfigurations ==
    { [n |-> 3, pl |-> ONE \div 8, pr |-> ONE \div 2,
       rw |-> [max |-> 3, intermediate |-> 2, commom |-> 1]] }

(* Both constructors have run: the first environment made is `other`. *)
TwinInit ==
    /\ \E c \in TwinConfigurations, first \in StartStates : Construct(c, first, 1)
    /\ \E first \in StartStates :
           other = [current_state |-> first,
                    np_random |-> Advance(SeededGenerator(None, 1)),
                    run |-> NoRun]
    /\ stream = <<>>
    /\ run = NoRun
    /\ left = NotLeft

(* The caller turns to the other environment: each instance has its own
   current_state and np_random; the configuration is the same. *)
Switch ==
    /\ status = "ready"
    /\ current_state' = other.current_state
    /\ np_random' = other.np_random
    /\ run' = other.run
    /\ other' = [current_state |-> current_state, np_random |-> np_random, run |-> run]
    /\ UNCHANGED <<config, status, entropy, call, ret, stream, left>>

TwinReset(seed) ==
    /\ Reset(seed)
    /\ run' = [seed |-> seed, actions |-> <<>>, results |-> <<>>]
    /\ UNCHANGED <<other, stream, left>>

(* The generator g may return j now: a seeded generator returns at each
   position what any generator of that seed returned there before. *)
MayDraw(g, j) ==
    (g.src = "seed" /\ <<g.id, g.pos>> \in DOMAIN stream) => stream[<<g.id, g.pos>>] = j

(* stream once g has returned j. *)
Drawn(g, j) ==
    IF g.src = "seed" /\ <<g.id, g.pos>> \notin DOMAIN stream
    THEN stream @@ (<<g.id, g.pos>> :> j)
    ELSE stream

TwinStep(action) ==
    /\ Step(action)
    /\ IF ret'.error = NoError
       THEN /\ np_random.pos < TwinDraws
            /\ \E j \in TwinQuantiles :
                   /\ MayDraw(np_random, j)
                   /\ current_state' = Choice(transition[current_state][action], n_states, j)
                   /\ stream' = Drawn(np_random, j)
            /\ run' = IF run.seed = None THEN run
                      ELSE [run EXCEPT !.actions = Append(@, action),
                                       !.results = Append(@, <<ret'.value[1], ret'.value[2]>>)]
       ELSE UNCHANGED <<stream, run>>
    /\ UNCHANGED <<other, left>>

TwinNext ==
    \/ Switch
    \/ \E seed \in TwinSeeds : TwinReset(seed)
    \/ \E action \in TwinActions : TwinStep(action)

TwinSpec == TwinInit /\ [][TwinNext]_vars

----------------------------------------------------------------------------
(* A caller that, from some point on, only calls step(0) *)

(* The environments of the run: the documented sizes, with the default
   probabilities and with exact binary fractions. *)
LeftConfigurations ==
    { c \in Configurations :
        /\ c.n >= 2
        /\ <<c.pl, c.pr>> \in { <<DefaultPLeft, DefaultPRight>>,
                                <<ONE \div 4, ONE \div 2>> } }

LeftInit ==
    /\ \E c \in LeftConfigurations, first \in StartStates : Construct(c, first, 0)
    /\ other = <<>>
    /\ stream = <<>>
    /\ run = NoRun
    /\ left = NotLeft

(* Before that point the caller resets and steps as it likes. *)
ResetBefore(seed) == left = NotLeft /\ ResetAlone(seed)

StepBefore(action) == left = NotLeft /\ StepAlone(action)

(* The point itself: the state and the number of values drawn so far are
   remembered.  The run begins only where the draws that are left take it
   one call past state 0. *)
GoLeft ==
    /\ left = NotLeft
    /\ status = "ready"
    /\ np_random.pos + current_state < MaxDraws
    /\ left' = [from |-> current_state, at |-> np_random.pos]
    /\ UNCHANGED <<config, status, current_state, np_random, entropy, call, ret,
                   other, stream, run>>

(* From then on: step(0), nothing else. *)
StepLeft == left # NotLeft /\ StepAlone(0)

LeftNext ==
    \/ \E seed \in Seeds \cup {None} : ResetBefore(seed)
    \/ \E action \in Actions : StepBefore(action)
    \/ GoLeft
    \/ StepLeft

(* The caller of the run does not stop calling. *)
LeftSpec == LeftInit /\ [][LeftNext]_vars /\ WF_vars(StepLeft)

----------------------------------------------------------------------------
(* Vocabulary of the properties. *)

(* The documented range of the configuration. *)
ValidConfiguration ==
    /\ n_states >= 2
    /\ p_left >= 0
    /\ p_right >= 0
    /\ p_left + p_right <= ONE

(* RiverSwimEnv() with no argument. *)
IsDefault ==
    /\ n_states = DefaultStates
    /\ p_left = DefaultPLeft
    /\ p_right = DefaultPRight
    /\ max_reward = DefaultMaxReward
    /\ intermediate_reward = DefaultIntermediateReward
    /\ commom_reward = DefaultCommomReward

(* The last call was a step that returned (did not raise). *)
Stepped == call.op = "step" /\ ret.error = NoError

(* p is a categorical distribution over n outcomes: entries in [0, 1], and a
   sum that is 1.0 both as the float32 sum the constructor asserts and
   within the tolerance the sampler accepts. *)
ValidCategorical(p, n) ==
    /\ \A k \in States(n) : 0 <= p[k] /\ p[k] <= ONE
    /\ SumF32(p, n) = ONE
    /\ ~ChoiceRejects(p, n)

----------------------------------------------------------------------------
(* C1: for every valid configuration, every row T[s][a][:] of the kernel
   _get_transition builds sums to 1, so the row-sum assertions of the
   constructor never fire. *)
C1_RowSumAssertionsNeverFire ==
    ValidConfiguration =>
        /\ RowSumsAreOne(transition, n_states)
        /\ status = "ready"

(* C2: in every reachable state of an environment constructed with
   n_states >= 2 (after construction, resets, steps and rejected steps),
   current_state is an integer in [0, n_states). *)
C2_CurrentStateInRange ==
    (status = "ready" /\ n_states >= 2) =>
        (current_state \in Int /\ 0 <= current_state /\ current_state < n_states)

C2_Witness ==
    /\ status = "ready"
    /\ n_states = 3
    /\ current_state = n_states - 1
    /\ call.op = "step"
    /\ call.arg = 2
    /\ call.state_before = n_states - 1

(* C3: with the default parameters, a step that returns next_state 0 with
   reward 5 started in state 0 with action 0, and a step that returns
   next_state 5 with reward 10000 started in state 5 with action 1. *)
C3_RewardPlacement ==
    (IsDefault /\ Stepped) =>
        /\ (ret.value[1] = 0 /\ ret.value[2] = 5) =>
               (call.state_before = 0 /\ call.arg = 0)
        /\ (ret.value[1] = 5 /\ ret.value[2] = 10000) =>
               (call.state_before = 5 /\ call.arg = 1)

C3_Witness ==
    /\ IsDefault
    /\ Stepped
    /\ ret.value[1] = 5
    /\ ret.value[2] = 10000
    /\ call.state_before = 5

(* C4: reset, with any seed or none and from any prior current_state, sets
   current_state to 0 and returns (0, {}). *)
C4_ResetToZero ==
    call.op = "reset" =>
        /\ current_state = 0
        /\ ret = [error |-> NoError, value |-> <<0, {}>>]

C4_Witness ==
    /\ call.op = "reset"
    /\ call.arg = None
    /\ call.state_before = 2
    /\ current_state = 0
    /\ ret.value = <<0, {}>>

(* C5: a step whose action is outside {0, 1} raises the invalid-action
   error and changes neither current_state nor the random source: nothing
   is sampled and the action is not clamped or defaulted. *)
C5_InvalidActionRejected ==
    [][(call'.op = "step" /\ call'.arg \notin {0, 1}) =>
           /\ ret'.error = "ValueError: Invalid action"
           /\ ret'.value = <<>>
           /\ current_state' = current_state
           /\ np_random' = np_random
           /\ entropy' = entropy]_vars

C5_Witness ==
    /\ call.op = "step"
    /\ call.arg = 2
    /\ ret.error = "ValueError: Invalid action"
    /\ current_state = 1
    /\ call.state_before = 1
    /\ np_random.pos = 2

(* C6, as claimed: whenever construction succeeds, the rows of the current
   state are valid categorical distributions and every step with an action
   in {0, 1} succeeds. *)
C6_Original ==
    status = "ready" =>
        /\ current_state \in States(n_states)
        /\ \A a \in {0, 1} : ValidCategorical(transition[current_state][a], n_states)
        /\ (call.op = "step" /\ call.arg \in {0, 1}) => ret.error = NoError

(* C6, amended: for a valid configuration whose construction succeeds, the
   rows of every reachable current_state are valid categorical
   distributions and every step with an action in {0, 1} succeeds. *)
C6_ValidConfigurationStepSucceeds ==
    (status = "ready" /\ ValidConfiguration) =>
        /\ current_state \in States(n_states)
        /\ \A a \in {0, 1} : ValidCategorical(transition[current_state][a], n_states)
        /\ (call.op = "step" /\ call.arg \in {0, 1}) => ret.error = NoError

C6_Witness ==
    /\ status = "ready"
    /\ ValidConfiguration
    /\ Stepped
    /\ call.arg = 1
    /\ call.state_before = 1
    /\ current_state = 2
    /\ p_left > 0

(* C7: every step with a valid action returns terminated = false and
   truncated = false, and no state is terminal: while the generator's
   stream lasts, a further step with either valid action is enabled. *)
C7_NeverTerminates ==
    /\ Stepped => (ret.value[3] = FALSE /\ ret.value[4] = FALSE)
    /\ (status = "ready" /\ ValidConfiguration /\ np_random.pos < MaxDraws) =>
           \A a \in {0, 1} : ENABLED (\E j \in Quantiles : Sample(a, j))

C7_Witness ==
    /\ Stepped
    /\ np_random.pos = MaxDraws
    /\ current_state = n_states - 1
    /\ ret.value[3] = FALSE
    /\ ret.value[4] = FALSE

(* The last call was reset(seed=0), or a step(0) of a run of step(0) calls
   that has stayed in state 0. *)
InLeftRun ==
    \/ call.op = "reset" /\ call.arg = 0
    \/ Stepped /\ call.arg = 0 /\ call.state_before = 0 /\ ret.value[1] = 0

(* C8: on a default model, after reset(seed=0), every call of a run of
   consecutive step(0) calls returns next_state 0 and reward 5, whatever
   the random source returns: each step(0) that follows the reset or a
   step(0) of the run does. *)
C8_LeftRunStaysAtZero ==
    [][(IsDefault /\ InLeftRun /\ call'.op = "step" /\ call'.arg = 0) =>
           /\ ret'.error = NoError
           /\ ret'.value[1] = 0
           /\ ret'.value[2] = 5
           /\ current_state' = 0
           /\ InLeftRun']_vars

C8_Witness ==
    /\ IsDefault
    /\ InLeftRun
    /\ Stepped
    /\ ret.value[2] = 5
    /\ np_random = [src |-> "seed", id |-> 0, pos |-> 3]

(* C9: a reset with the seed omitted leaves the random source as it was;
   only a reset with a seed replaces it. *)
C9_UnseededResetKeepsGenerator ==
    [][(call'.op = "reset" /\ call'.arg = None) => np_random' = np_random]_vars

(* C10: for every valid configuration, the kernel row of state 0 and
   action 1 is p_stay + p_left at next state 0, p_right at next state 1 and
   0 elsewhere, also when n_states = 2; with the default p_left and p_right
   these are the float32 numbers 0.7 and 0.3 (187904816 and 80530640 in
   units of 2^-28). *)
C10_FoldAtStateZero ==
    ValidConfiguration =>
        /\ transition[0][1] =
               [t \in States(n_states) |->
                   IF t = 0 THEN F32(p_stay + p_left)
                   ELSE IF t = 1 THEN F32(p_right)
                   ELSE 0]
        /\ p_stay = ONE - p_left - p_right
        /\ (p_left = DefaultPLeft /\ p_right = DefaultPRight) =>
               (transition[0][1][0] = 187904816 /\ transition[0][1][1] = 80530640)

C10_Witness ==
    /\ ValidConfiguration
    /\ n_states = 2
    /\ p_left = DefaultPLeft
    /\ p_right = DefaultPRight
    /\ transition[0][1][0] = 187904816
    /\ transition[0][1][1] = 80530640
    /\ transition[1][1][0] = 187904816

(* C11: for every valid configuration, the kernel row of the last state and
   action 1 is p_right at the last state, 1 - p_right at the state before
   it and 0 elsewhere: the last-state branch overrides the p_left and
   p_stay written earlier for that row.  With the defaults (n_states = 6)
   T[5][1][5] and T[5][1][4] are the float32 numbers 0.3 and 0.7. *)
C11_FoldAtLastState ==
    ValidConfiguration =>
        /\ transition[n_states - 1][1] =
               [t \in States(n_states) |->
                   IF t = n_states - 1 THEN F32(p_right)
                   ELSE IF t = n_states - 2 THEN F32(ONE - p_right)
                   ELSE 0]
        /\ IsDefault =>
               (transition[5][1][5] = 80530640 /\ transition[5][1][4] = 187904816)

C11_Witness ==
    /\ ValidConfiguration
    /\ n_states = 3
    /\ p_left = ONE \div 4
    /\ p_right = ONE \div 2
    /\ transition[2][1] = (0 :> 0 @@ 1 :> ONE \div 2 @@ 2 :> ONE \div 2)
    /\ F32(p_left) # transition[2][1][1]
    /\ F32(p_stay) # transition[2][1][2]

(* C12: the agent starts at the leftmost state: in a freshly constructed
   environment, before any reset or step, current_state is 0. *)
C12_StartsAtLeftmostState ==
    call.op = "__init__" => current_state = 0

(* C13: a step from state s with valid action a that samples state t
   returns intermediate_reward if t = s = 0 and a = 0, otherwise max_reward
   if t = s = n_states - 1 and a = 1, otherwise commom_reward; so every
   step that changes the state returns commom_reward, as does staying at a
   middle state or at state 0 under action 1. *)
C13_RewardRule ==
    Stepped =>
        LET s == call.state_before
            a == call.arg
            t == ret.value[1]
        IN  /\ ret.value[2] =
                   IF t = s /\ s = 0 /\ a = 0 THEN intermediate_reward
                   ELSE IF t = s /\ s = n_states - 1 /\ a = 1 THEN max_reward
                   ELSE commom_reward
            /\ t # s => ret.value[2] = commom_reward
            /\ (t = s /\ 0 < s /\ s < n_states - 1) => ret.value[2] = commom_reward
            /\ (t = s /\ s = 0 /\ a = 1 /\ n_states > 1) => ret.value[2] = commom_reward

C13_Witness ==
    /\ Stepped
    /\ n_states = 3
    /\ commom_reward = 1
    /\ call.state_before = 0
    /\ call.arg = 1
    /\ ret.value[1] = 0
    /\ ret.value[2] = 1

(* C14: the kernel row of every state s for action 0 is deterministic,
   probability 1 at s - 1 when s > 0 and at 0 when s = 0 and 0 elsewhere;
   hence step(0) from state s yields max(s - 1, 0) whatever is drawn. *)
C14_LeftIsDeterministic ==
    /\ \A s \in States(n_states) :
           transition[s][0] =
               [t \in States(n_states) |->
                   IF t = (IF s > 0 THEN s - 1 ELSE 0) THEN ONE ELSE 0]
    /\ (Stepped /\ call.arg = 0) =>
           ret.value[1] = (IF call.state_before > 0 THEN call.state_before - 1 ELSE 0)

C14_Witness ==
    /\ Stepped
    /\ call.arg = 0
    /\ call.state_before = 2
    /\ ret.value[1] = 1
    /\ current_state = 1
    /\ transition[2][0][1] = ONE

(* C15: the kernel row of every middle state s (0 < s < n_states - 1) for
   action 1 is p_left at s - 1, p_stay at s, p_right at s + 1 and 0
   elsewhere; so step(1) from a middle state reaches s - 1, s or s + 1
   only. *)
C15_MiddleRow ==
    /\ \A s \in States(n_states) :
           (0 < s /\ s < n_states - 1) =>
               transition[s][1] =
                   [t \in States(n_states) |->
                       IF t = s - 1 THEN F32(p_left)
                       ELSE IF t = s THEN F32(p_stay)
                       ELSE IF t = s + 1 THEN F32(p_right)
                       ELSE 0]
    /\ (Stepped /\ call.arg = 1 /\ 0 < call.state_before
            /\ call.state_before < n_states - 1) =>
           ret.value[1] \in {call.state_before - 1, call.state_before,
                             call.state_before + 1}

C15_Witness ==
    /\ Stepped
    /\ IsDefault
    /\ call.arg = 1
    /\ call.state_before = 3
    /\ ret.value[1] = 2
    /\ transition[3][1][2] = F32(DefaultPLeft)

(* No reset has been called: the generator is still the one the
   constructor made. *)
NoResetYet == np_random.src = "entropy" /\ np_random.id = 1

(* C16: after construction and before any reset, current_state is 0 or 1,
   and for n_states >= 2 a step with a valid action can be taken from it
   without a prior reset: it samples from T[current_state][action][:] as any
   other step does. *)
C16_StepWithoutReset ==
    /\ call.op = "__init__" => current_state \in {0, 1}
    /\ (NoResetYet /\ n_states >= 2 /\ call.op = "step" /\ call.arg \in {0, 1}) =>
           /\ ret.error # "IndexError"
           /\ ValidConfiguration =>
                  /\ ret.error = NoError
                  /\ \E j \in Quantiles :
                         ret.value[1] =
                             Choice(transition[call.state_before][call.arg], n_states, j)
                  /\ current_state = ret.value[1]

C16_Witness ==
    /\ NoResetYet
    /\ ValidConfiguration
    /\ Stepped
    /\ np_random.pos = 2
    /\ call.arg = 1
    /\ call.state_before = 1
    /\ ret.value[1] = 2

(* C17: every reset and every step, accepted or rejected, leaves the
   kernel, n_states, p_left, p_right, p_stay and the three rewards as they
   were. *)
C17_ConfigurationIsFrozen ==
    [][/\ transition' = transition
       /\ n_states' = n_states
       /\ p_left' = p_left
       /\ p_right' = p_right
       /\ p_stay' = p_stay
       /\ max_reward' = max_reward
       /\ intermediate_reward' = intermediate_reward
       /\ commom_reward' = commom_reward]_vars

C17_Witness ==
    /\ call.op = "step"
    /\ call.arg = 2
    /\ ret.error = "ValueError: Invalid action"
    /\ np_random = [src |-> "seed", id |-> 1, pos |-> 2]
    /\ current_state = 2
    /\ transition = TransitionMatrix(n_states, p_left, p_right, ONE - p_left - p_right)
    /\ p_stay = ONE - p_left - p_right

(* C18: two models of the same configuration, each reset with the same
   integer seed and then given the same valid actions, return the same
   (next_state, reward) sequences, whatever they were before the reset and
   whatever is called on the other in between: the runs of the two
   instances since their seeded resets agree as far as their actions do. *)
C18_SeededRunsAgree ==
    (run.seed # None /\ other.run.seed = run.seed) =>
        \A k \in 1 .. Len(run.actions) :
            (k <= Len(other.run.actions)
                /\ SubSeq(run.actions, 1, k) = SubSeq(other.run.actions, 1, k)) =>
            SubSeq(run.results, 1, k) = SubSeq(other.run.results, 1, k)

C18_Witness ==
    /\ run.seed = 0
    /\ other.run.seed = 0
    /\ run.actions = <<1, 1>>
    /\ other.run.actions = <<1, 1>>
    /\ run.results = other.run.results
    /\ run.results[1][1] = 1
    /\ run.results[2][1] = 2
    /\ n_states = 3

(* The number of step(0) calls of the closing run made so far. *)
LeftCalls == np_random.pos - left.at

(* The run of step(0) calls has begun, on an environment of the documented
   size. *)
LeftRun == left # NotLeft /\ n_states >= 2 /\ status = "ready"

(* C19: with n_states >= 2, once every call is step(0), starting in state
   s, the state after k such calls is max(s - k, 0): it reaches 0 after
   exactly s calls and stays there for good; each of the first s calls
   returns commom_reward and each later one intermediate_reward. *)
C19_LeftRunReachesZero ==
    /\ [](LeftRun =>
             /\ current_state = (IF left.from > LeftCalls THEN left.from - LeftCalls ELSE 0)
             /\ LeftCalls >= 1 =>
                    /\ Stepped
                    /\ call.arg = 0
                    /\ ret.value[1] = current_state
                    /\ ret.value[2] = (IF LeftCalls <= left.from THEN commom_reward
                                       ELSE intermediate_reward))
    /\ LeftRun ~> [](current_state = 0)

C19_Witness ==
    /\ LeftRun
    /\ left.from = 2
    /\ LeftCalls = 3
    /\ current_state = 0
    /\ commom_reward = 1
    /\ intermediate_reward = 2
    /\ ret.value[2] = 2

====
